---- MODULE Spec2Model ----
(***************************************************************************)
(* EnvironmentManager (src/src/index.ts): a zod schema is validated        *)
(* against process.env at construction and on every getEnv(); check()      *)
(* reports the declared keys that are absent from process.env or empty.    *)
(*                                                                         *)
(* process.env is a partial map from variable names to raw strings.  A     *)
(* schema is a zod type: a ZodObject with an ordered shape of fields, or   *)
(* a type that is no ZodObject (ZodRecord, ZodString).  The field kinds    *)
(* are the ones the README's schema uses:                                  *)
(*   string   z.string()                                                   *)
(*   enum     z.enum(['dev', 'production', 'test'])                        *)
(*   boolean  z.string().transform(val => val === 'true').pipe(z.boolean())*)
(*   default  z.string().default('8016')                                   *)
(***************************************************************************)
EXTENDS Naturals, Sequences, FiniteSets

VARIABLES
  loaded,      \* the library's module has been imported
  env,         \* process.env
  arg,         \* the schema the host program passes to each constructor call
  schema,      \* this.schema of each manager instance (NoSchema: no instance)
  last,        \* the most recent call's result, for the current process.env
  prevGet,     \* the most recent getEnv() result, for the current process.env
  calls        \* the calls made since process.env last changed: "none", "get",
               \* "get-check" or "get-check-get"

vars == <<loaded, env, arg, schema, last, prevGet, calls>>

\* Longest shape of a ZodObject the model constructs a manager from.
MaxFields == 2

\* Variable names and raw values of the README's schema and .env file.
Keys == {"APP_ENV", "APP_DEBUG", "APP_PORT"}
Values == {"", "true", "dev"}
Kinds == {"string", "enum", "boolean", "default"}
Managers == {1, 2}

EnumOptions == {"dev", "production", "test"}
DefaultValue == "8016"

\* ---------------------------------------------------------------- schemas

Fields == [key : Keys, kind : Kinds]

RECURSIVE ShapesOfLen(_)
ShapesOfLen(n) ==
  IF n = 0 THEN {<<>>}
  ELSE {Append(sh, f) : sh \in ShapesOfLen(n - 1), f \in Fields}

\* An object literal holds each key once.
DistinctKeys(sh) ==
  \A i, j \in 1..Len(sh) : sh[i].key = sh[j].key => i = j

Shapes == {sh \in UNION {ShapesOfLen(n) : n \in 0..MaxFields} : DistinctKeys(sh)}

ZodObjectOf(sh) == [type |-> "ZodObject", shape |-> sh]
ZodRecordSchema == [type |-> "ZodRecord", shape |-> <<>>]
ZodStringSchema == [type |-> "ZodString", shape |-> <<>>]
NoSchema == [type |-> "none", shape |-> <<>>]

Schemas == {ZodObjectOf(sh) : sh \in Shapes} \cup {ZodRecordSchema, ZodStringSchema}

\* The schemas of the programs that build two instances.
OtherSchemas ==
  { ZodRecordSchema,
    ZodObjectOf(<<[key |-> "APP_ENV", kind |-> "enum"]>>),
    ZodObjectOf(<<[key |-> "APP_PORT", kind |-> "default"]>>) }

\* The working directory's .env file, as KEY=VALUE assignments.
DotenvFile == [k \in {"APP_ENV", "APP_DEBUG"} |-> IF k = "APP_ENV" THEN "dev" ELSE "true"]

Envs == UNION {[D -> Values] : D \in SUBSET Keys}

\* ----------------------------------------------------------------- values

StringVal(s) == [type |-> "string", str |-> s, bool |-> FALSE]
BooleanVal(b) == [type |-> "boolean", str |-> "", bool |-> b]

NoData == [k \in {} |-> StringVal("")]
NoIssue == [code |-> "none", path |-> "", received |-> ""]
Issue(code, path, received) == [code |-> code, path |-> path, received |-> received]

\* ------------------------------------------------------ zod: safeParse

\* The raw value zod reads for a field: process.env[key], undefined when the
\* key is absent.
Present(e, key) == key \in DOMAIN e

\* ParseField with the transform of the boolean kind left out.
ParseFieldUntransformed(f, e) ==
  IF f.kind \in {"string", "boolean"}
  THEN IF Present(e, f.key)
       THEN [ok |-> TRUE, value |-> StringVal(e[f.key]), issue |-> NoIssue]
       ELSE [ok |-> FALSE, value |-> StringVal(""),
             issue |-> Issue("invalid_type", f.key, "undefined")]
  ELSE IF f.kind = "enum"
  THEN IF ~Present(e, f.key)
       THEN [ok |-> FALSE, value |-> StringVal(""),
             issue |-> Issue("invalid_type", f.key, "undefined")]
       ELSE IF e[f.key] \notin EnumOptions
       THEN [ok |-> FALSE, value |-> StringVal(""),
             issue |-> Issue("invalid_enum_value", f.key, e[f.key])]
       ELSE [ok |-> TRUE, value |-> StringVal(e[f.key]), issue |-> NoIssue]
  ELSE IF Present(e, f.key)
       THEN [ok |-> TRUE, value |-> StringVal(e[f.key]), issue |-> NoIssue]
       ELSE [ok |-> TRUE, value |-> StringVal(DefaultValue), issue |-> NoIssue]

\* One field's schema parsed against process.env[key].
ParseField(f, e) ==
  CASE f.kind = "string" ->
         IF Present(e, f.key)
         THEN [ok |-> TRUE, value |-> StringVal(e[f.key]), issue |-> NoIssue]
         ELSE [ok |-> FALSE, value |-> StringVal(""),
               issue |-> Issue("invalid_type", f.key, "undefined")]
    [] f.kind = "enum" ->
         IF ~Present(e, f.key)
         THEN [ok |-> FALSE, value |-> StringVal(""),
               issue |-> Issue("invalid_type", f.key, "undefined")]
         ELSE IF e[f.key] \notin EnumOptions
         THEN [ok |-> FALSE, value |-> StringVal(""),
               issue |-> Issue("invalid_enum_value", f.key, e[f.key])]
         ELSE [ok |-> TRUE, value |-> StringVal(e[f.key]), issue |-> NoIssue]
    [] f.kind = "boolean" ->
         IF Present(e, f.key)
         THEN [ok |-> TRUE, value |-> BooleanVal(e[f.key] = "true"), issue |-> NoIssue]
         ELSE [ok |-> FALSE, value |-> BooleanVal(FALSE),
               issue |-> Issue("invalid_type", f.key, "undefined")]
    [] f.kind = "default" ->
         IF Present(e, f.key)
         THEN [ok |-> TRUE, value |-> StringVal(e[f.key]), issue |-> NoIssue]
         ELSE [ok |-> TRUE, value |-> StringVal(DefaultValue), issue |-> NoIssue]

\* ShapeIssues stopping at the first field that fails.
RECURSIVE ShapeIssuesFirstOnly(_, _)
ShapeIssuesFirstOnly(sh, e) ==
  IF sh = <<>> THEN <<>>
  ELSE LET r == ParseField(Head(sh), e)
       IN  IF r.ok THEN ShapeIssuesFirstOnly(Tail(sh), e) ELSE <<r.issue>>

\* The issues of a shape's fields, in the order ZodObject parses them.
RECURSIVE ShapeIssues(_, _)
ShapeIssues(sh, e) ==
  IF sh = <<>> THEN <<>>
  ELSE LET r == ParseField(Head(sh), e)
       IN  (IF r.ok THEN <<>> ELSE <<r.issue>>) \o ShapeIssues(Tail(sh), e)

ShapeKeys(sh) == {sh[i].key : i \in 1..Len(sh)}

FieldOf(sh, key) == sh[CHOOSE i \in 1..Len(sh) : sh[i].key = key]

\* The output of a ZodObject: its declared keys only (unknown keys stripped).
ShapeData(sh, e) == [k \in ShapeKeys(sh) |-> ParseField(FieldOf(sh, k), e).value]

\* schema.safeParse(process.env)
SafeParse(s, e) ==
  CASE s.type = "ZodObject" ->
         LET issues == ShapeIssues(s.shape, e)
         IN  IF issues = <<>>
             THEN [success |-> TRUE, data |-> ShapeData(s.shape, e), errors |-> <<>>]
             ELSE [success |-> FALSE, data |-> NoData, errors |-> issues]
    [] s.type = "ZodRecord" ->
         [success |-> TRUE, data |-> [k \in DOMAIN e |-> StringVal(e[k])],
          errors |-> <<>>]
    [] OTHER ->
         [success |-> FALSE, data |-> NoData,
          errors |-> <<Issue("invalid_type", "", "object")>>]

\* ------------------------------------------------------- call results

InvalidPrefix == "Invalid environment variables: "
\* The cross mark U+274C that opens the message is written out in ASCII.
MissingPrefix == "(U+274C) Failed - Missing env vars - "
NotObjectMessage == "Schema must be an object type (z.object())."

NoCall ==
  [op |-> "none", mgr |-> 0, schema |-> NoSchema, raised |-> FALSE,
   prefix |-> "", text |-> <<>>, errors |-> <<>>, data |-> NoData]

Returned(op, m, s, d) ==
  [op |-> op, mgr |-> m, schema |-> s, raised |-> FALSE,
   prefix |-> "", text |-> <<>>, errors |-> <<>>, data |-> d]

\* throw new Error(prefix + text), errors being what JSON.stringify serialised
Raised(op, m, s, prefix, text, errors) ==
  [op |-> op, mgr |-> m, schema |-> s, raised |-> TRUE,
   prefix |-> prefix, text |-> text, errors |-> errors, data |-> NoData]

\* MissingKeys without the test for the empty string.
RECURSIVE MissingKeysAbsentOnly(_, _)
MissingKeysAbsentOnly(sh, e) ==
  IF sh = <<>> THEN <<>>
  ELSE (IF ~(Head(sh).key \in DOMAIN e)
        THEN <<Head(sh).key>> ELSE <<>>) \o MissingKeysAbsentOnly(Tail(sh), e)

\* missingKeys of check(): the loop over Object.keys(this.schema.shape)
RECURSIVE MissingKeys(_, _)
MissingKeys(sh, e) ==
  IF sh = <<>> THEN <<>>
  ELSE (IF ~(Head(sh).key \in DOMAIN e) \/ e[Head(sh).key] = ""
        THEN <<Head(sh).key>> ELSE <<>>) \o MissingKeys(Tail(sh), e)

\* Array.prototype.join
RECURSIVE Join(_, _)
Join(names, sep) ==
  IF names = <<>> THEN <<>>
  ELSE IF Len(names) = 1 THEN <<names[1]>>
  ELSE <<names[1], sep>> \o Join(Tail(names), sep)

\* validateEnv(): what it throws, if anything
ValidateEnvResult(m, s, e) ==
  LET parsed == SafeParse(s, e)
  IN  IF ~parsed.success
      THEN Raised("constructor", m, s, InvalidPrefix, <<>>, parsed.errors)
      ELSE Returned("constructor", m, s, NoData)

\* CheckResult without the instanceof ZodObject test and its else branch.
CheckResultAnySchema(m, s, e) ==
  LET missingKeys == MissingKeys(s.shape, e)
  IN  IF Len(missingKeys) > 0
      THEN Raised("check", m, s, MissingPrefix, Join(missingKeys, ", "), <<>>)
      ELSE Returned("check", m, s, NoData)

\* check(): what it throws, if anything
CheckResult(m, s, e) ==
  IF s.type = "ZodObject"
  THEN LET missingKeys == MissingKeys(s.shape, e)
       IN  IF Len(missingKeys) > 0
           THEN Raised("check", m, s, MissingPrefix, Join(missingKeys, ", "), <<>>)
           ELSE Returned("check", m, s, NoData)
  ELSE Raised("check", m, s, NotObjectMessage, <<>>, <<>>)

\* GetEnvResult returning parsed.data without the test of parsed.success.
GetEnvResultUnchecked(m, s, e) ==
  Returned("getEnv", m, s, SafeParse(s, e).data)

\* getEnv(): what it returns or throws
GetEnvResult(m, s, e) ==
  LET parsed == SafeParse(s, e)
  IN  IF ~parsed.success
      THEN Raised("getEnv", m, s, InvalidPrefix, <<>>, parsed.errors)
      ELSE Returned("getEnv", m, s, parsed.data)

\* ------------------------------------------------------------ actions

Init ==
  /\ loaded = FALSE
  /\ env \in Envs
  /\ arg \in {[m \in Managers |-> IF m = 1 THEN s ELSE ZodRecordSchema] : s \in Schemas}
  /\ schema = [m \in Managers |-> NoSchema]
  /\ last = NoCall
  /\ prevGet = NoCall
  /\ calls = "none"

\* import 'tarkus-env-manager': the module imports zod and nothing else, so
\* process.env is what the operating system gave the process.
ImportModule ==
  /\ ~loaded
  /\ loaded' = TRUE
  /\ UNCHANGED <<env, arg, schema, last, prevGet, calls>>

\* The host process assigns process.env[k] = v.
HostSetEnv(k, v) ==
  /\ env' = [x \in DOMAIN env \cup {k} |-> IF x = k THEN v ELSE env[x]]
  /\ env' # env
  /\ last' = NoCall
  /\ prevGet' = NoCall
  /\ calls' = "none"
  /\ UNCHANGED <<loaded, arg, schema>>

\* The host process deletes process.env[k].
HostDeleteEnv(k) ==
  /\ k \in DOMAIN env
  /\ env' = [x \in DOMAIN env \ {k} |-> env[x]]
  /\ last' = NoCall
  /\ prevGet' = NoCall
  /\ calls' = "none"
  /\ UNCHANGED <<loaded, arg, schema>>

\* Construct without the call of validateEnv().
ConstructUnvalidated(m) ==
  /\ loaded
  /\ schema[m] = NoSchema
  /\ last' = Returned("constructor", m, arg[m], NoData)
  /\ schema' = [schema EXCEPT ![m] = arg[m]]
  /\ UNCHANGED <<loaded, env, arg, prevGet, calls>>

\* Construct keeping the schema in a field all instances share.
ConstructShared(m) ==
  /\ loaded
  /\ schema[m] = NoSchema
  /\ LET r == ValidateEnvResult(m, arg[m], env)
     IN  /\ last' = r
         /\ schema' = IF r.raised THEN schema ELSE [x \in Managers |-> arg[m]]
  /\ UNCHANGED <<loaded, env, arg, prevGet, calls>>

\* new EnvironmentManager(arg[m]): the instance exists unless validateEnv()
\* throws.
Construct(m) ==
  /\ loaded
  /\ schema[m] = NoSchema
  /\ LET r == ValidateEnvResult(m, arg[m], env)
     IN  /\ last' = r
         /\ schema' = IF r.raised THEN schema ELSE [schema EXCEPT ![m] = arg[m]]
  /\ UNCHANGED <<loaded, env, arg, prevGet, calls>>

\* Check with `process.env[key] = ''` written for `process.env[key] === ''`:
\* every declared key that is present is assigned the empty string.
CheckAssigning(m) ==
  /\ schema[m] # NoSchema
  /\ last' = CheckResult(m, schema[m], env)
  /\ env' = [k \in DOMAIN env |->
               IF k \in ShapeKeys(schema[m].shape) THEN "" ELSE env[k]]
  /\ calls' = IF calls = "get" /\ prevGet.mgr = m THEN "get-check" ELSE calls
  /\ UNCHANGED <<loaded, arg, schema, prevGet>>

\* manager.check()
Check(m) ==
  /\ schema[m] # NoSchema
  /\ last' = CheckResult(m, schema[m], env)
  /\ calls' = IF calls = "get" /\ prevGet.mgr = m THEN "get-check" ELSE calls
  /\ UNCHANGED <<loaded, env, arg, schema, prevGet>>

\* manager.getEnv()
GetEnv(m) ==
  /\ schema[m] # NoSchema
  /\ last' = GetEnvResult(m, schema[m], env)
  /\ prevGet' = last'
  /\ calls' = IF prevGet.op = "getEnv" /\ prevGet.mgr = m
              THEN (IF calls = "get" THEN "get" ELSE "get-check-get")
              ELSE "get"
  /\ UNCHANGED <<loaded, env, arg, schema>>

\* A program with one instance, built from any schema.
Next ==
  \/ ImportModule
  \/ \E k \in Keys, v \in Values : HostSetEnv(k, v)
  \/ \E k \in Keys : HostDeleteEnv(k)
  \/ Construct(1)
  \/ Check(1)
  \/ GetEnv(1)

Spec == Init /\ [][Next]_vars

\* A program with two instances.
InitTwo ==
  /\ loaded = FALSE
  /\ env \in Envs
  /\ arg \in [Managers -> OtherSchemas]
  /\ schema = [m \in Managers |-> NoSchema]
  /\ last = NoCall
  /\ prevGet = NoCall
  /\ calls = "none"

NextTwo ==
  \/ ImportModule
  \/ \E k \in Keys, v \in Values : HostSetEnv(k, v)
  \/ \E k \in Keys : HostDeleteEnv(k)
  \/ \E m \in Managers : Construct(m)
  \/ \E m \in Managers : Check(m)
  \/ \E m \in Managers : GetEnv(m)

SpecTwo == InitTwo /\ [][NextTwo]_vars

\* ------------------------------------------------- what the claims say

\* A field's constraint, as the schema declares it, on a snapshot.
FieldSatisfied(f, e) ==
  \/ f.kind = "default"
  \/ f.kind \in {"string", "boolean"} /\ f.key \in DOMAIN e
  \/ f.kind = "enum" /\ f.key \in DOMAIN e /\ e[f.key] \in EnumOptions

SchemaSatisfied(s, e) ==
  \/ s.type = "ZodRecord"
  \/ s.type = "ZodObject" /\ \A i \in 1..Len(s.shape) : FieldSatisfied(s.shape[i], e)

PresentNonEmpty(k, e) == k \in DOMAIN e /\ e[k] # ""

\* The value a field declares for a raw string.
Transformed(f, raw) ==
  IF f.kind = "boolean" THEN BooleanVal(raw = "true") ELSE StringVal(raw)

\* The mapping a schema declares for a snapshot that satisfies it.
DeclaredMapping(s, e) ==
  IF s.type = "ZodObject"
  THEN [k \in {s.shape[i].key : i \in 1..Len(s.shape)} |->
          LET f == s.shape[CHOOSE i \in 1..Len(s.shape) : s.shape[i].key = k]
          IN  Transformed(f, IF k \in DOMAIN e THEN e[k] ELSE DefaultValue)]
  ELSE [k \in DOMAIN e |-> StringVal(e[k])]

\* The names a check() message lists: every other token of its text.
ListedNames(t) == {t[i] : i \in {j \in 1..Len(t) : j % 2 = 1}}

C2_GetEnvReturnsDeclaredMapping ==
  (/\ last.op = "getEnv"
   /\ last.schema.type = "ZodObject"
   /\ \A i \in 1..Len(last.schema.shape) :
        /\ PresentNonEmpty(last.schema.shape[i].key, env)
        /\ FieldSatisfied(last.schema.shape[i], env)) =>
    LET sh == last.schema.shape
    IN  /\ ~last.raised
        /\ DOMAIN last.data = {sh[i].key : i \in 1..Len(sh)}
        /\ \A i \in 1..Len(sh) :
             last.data[sh[i].key] = Transformed(sh[i], env[sh[i].key])

\* getEnv() returned a boolean for a string-to-boolean field while
\* process.env holds a key the schema does not declare.
C2_Witness ==
  /\ last.op = "getEnv"
  /\ ~last.raised
  /\ \E i \in 1..Len(last.schema.shape) :
       /\ last.schema.shape[i].kind = "boolean"
       /\ env[last.schema.shape[i].key] = "true"
       /\ last.data[last.schema.shape[i].key].type = "boolean"
  /\ DOMAIN env \ DOMAIN last.data # {}

\* C3: a constructor call validates the schema against process.env as it is
\* at that call: it raises "Invalid environment variables: ..." and leaves no
\* instance when the snapshot violates the schema, and yields the instance
\* when the snapshot satisfies it; an instance comes to exist only by a step
\* from a snapshot that satisfies its schema.
C3_ConstructionFailsFast ==
  [][\A m \in Managers :
       /\ Construct(m) =>
            IF SchemaSatisfied(arg[m], env)
            THEN ~last'.raised /\ schema'[m] = arg[m]
            ELSE /\ last'.raised
                 /\ last'.prefix = InvalidPrefix
                 /\ schema'[m] = NoSchema
       /\ (schema[m] = NoSchema /\ schema'[m] # NoSchema) =>
            SchemaSatisfied(schema'[m], env)]_vars

\* A constructor call raised and left no instance.
C3_Witness ==
  /\ last.op = "constructor"
  /\ last.raised
  /\ last.schema.type = "ZodObject"
  /\ schema[last.mgr] = NoSchema

\* C4: every getEnv() call validates process.env as it is at that call: it
\* raises "Invalid environment variables: ..." when the snapshot violates the
\* schema and returns the mapping of the current snapshot when it satisfies
\* the schema, whatever construction and earlier calls did.
C4_GetEnvRevalidates ==
  last.op = "getEnv" =>
    IF SchemaSatisfied(schema[last.mgr], env)
    THEN ~last.raised /\ last.data = DeclaredMapping(schema[last.mgr], env)
    ELSE last.raised /\ last.prefix = InvalidPrefix /\ last.data = NoData

\* getEnv() raised on an instance: its construction succeeded on an earlier
\* snapshot.
C4_Witness ==
  /\ last.op = "getEnv"
  /\ last.raised
  /\ schema[last.mgr] # NoSchema

\* C5: check() on an instance whose schema is no ZodObject raises the fixed
\* message, whatever process.env holds, and never the missing-keys message.
C5_CheckRejectsNonObject ==
  (last.op = "check" /\ last.schema.type # "ZodObject") =>
    /\ last.raised
    /\ last.prefix = NotObjectMessage
    /\ last.text = <<>>

\* check() was called on an instance built from a record schema.
C5_Witness ==
  /\ last.op = "check"
  /\ last.schema.type = "ZodRecord"
  /\ DOMAIN env # {}

\* C6 (as claimed): check() never lists a declared field that has a default.
C6_DefaultNeverMissing ==
  (last.op = "check" /\ last.raised /\ last.prefix = MissingPrefix) =>
    \A i \in 1..Len(last.schema.shape) :
      last.schema.shape[i].kind = "default" =>
        last.schema.shape[i].key \notin ListedNames(last.text)

\* C7 (as claimed): importing the library overlays the .env file on
\* process.env, the values process.env already holds taking precedence.
C7_ImportLoadsDotenv ==
  [][(~loaded /\ loaded') =>
       env' = [k \in DOMAIN env \cup DOMAIN DotenvFile |->
                 IF k \in DOMAIN env THEN env[k] ELSE DotenvFile[k]]]_vars

\* C8: a getEnv() call on the instance of the previous getEnv() call, with
\* process.env unchanged since (check() calls in between or not), returns a
\* value-equal mapping or raises with the same message.
C8_GetEnvIdempotent ==
  [][\A m \in Managers :
       (GetEnv(m) /\ prevGet.op = "getEnv" /\ prevGet.mgr = m) =>
         /\ last'.raised = prevGet.raised
         /\ last'.data = prevGet.data
         /\ last'.prefix = prevGet.prefix
         /\ last'.errors = prevGet.errors]_vars

\* getEnv(), check(), getEnv() were called on one snapshot.
C8_Witness ==
  /\ calls = "get-check-get"
  /\ last.op = "getEnv"
  /\ Len(last.schema.shape) > 0

\* A call on an instance: its construction, check() or getEnv().
ManagerStep(m) == Construct(m) \/ Check(m) \/ GetEnv(m)

\* C9: a constructor, check() or getEnv() call leaves process.env and every
\* stored schema as they were, an instance's own schema being set once, by
\* its constructor, to the schema passed in.
C9_ManagerOnlyReads ==
  [][\A m \in Managers :
       ManagerStep(m) =>
         /\ env' = env
         /\ \A o \in Managers \ {m} : schema'[o] = schema[o]
         /\ schema[m] # NoSchema => schema'[m] = schema[m]
         /\ schema'[m] \in {NoSchema, arg[m]}]_vars

\* Two instances with different schemas exist and one was just queried.
C9_Witness ==
  /\ schema[1] # NoSchema
  /\ schema[2] # NoSchema
  /\ schema[1] # schema[2]
  /\ last.op \in {"check", "getEnv"}

\* C10: when an object schema fails, construction and getEnv() raise with no
\* mapping, and the error's issues name every declared field that fails its
\* constraint, each once, and no field that passes.
C10_ValidationAllOrNothing ==
  (/\ last.op \in {"constructor", "getEnv"}
   /\ last.schema.type = "ZodObject"
   /\ \E i \in 1..Len(last.schema.shape) : ~FieldSatisfied(last.schema.shape[i], env)) =>
    LET sh == last.schema.shape
        failing == {sh[i].key : i \in {j \in 1..Len(sh) : ~FieldSatisfied(sh[j], env)}}
    IN  /\ last.raised
        /\ last.prefix = InvalidPrefix
        /\ last.data = NoData
        /\ {last.errors[i].path : i \in 1..Len(last.errors)} = failing
        /\ Len(last.errors) = Cardinality(failing)

\* Validation raised with two failing fields.
C10_Witness ==
  /\ last.op \in {"constructor", "getEnv"}
  /\ last.raised
  /\ Len(last.errors) = 2
  /\ last.errors[1].code # last.errors[2].code

====
